---- MODULE Spec2Model ----
(***************************************************************************)
(* Model of the pooled ProcessFiles of package transcriber                 *)
(* (src/transcriber/processor.go, lines 1-190) together with the parts of  *)
(* WhisperTranscriber (src/unnamed/part_004) and models.Transcript         *)
(* (src/models/transcript.go) it calls.                                    *)
(*                                                                         *)
(* The main goroutine is a program counter `pc`; every goroutine started   *)
(* by `go workerWithPool(...)` is one record of the sequence `workers`.    *)
(* Channels are FIFO sequences with a capacity; a send is enabled only     *)
(* below capacity and a receive only on a non-empty channel, as in Go.     *)
(***************************************************************************)
EXTENDS Integers, Sequences, FiniteSets, TLC

\* ------------------------------------------------------------------ bounds
MaxAudioFiles == 2
MaxNumTranscribers == 2
MaxMaxParallel == 2
MaxNumCPU == 2

VARIABLES
  config,            \* ProcessConfig: AudioFiles, MaxParallel, NumTranscribers
  numCPU,            \* what the call of runtime.NumCPU() returned; 0: not called
  pc,                \* position of the goroutine running ProcessFiles
  numTranscribers,   \* local of ProcessFiles
  maxParallel,       \* local of ProcessFiles
  transcribers,      \* local slice: handles created so far, in order
  transcriberPool,   \* buffered channel of free handles
  newCalls,          \* number of calls of NewWhisperTranscriber so far
  closeCalls,        \* closeCalls[h]: number of calls of Close on handle h
  jobs,              \* buffered channel of AudioFile
  jobsClosed,        \* close(jobs) has run
  results,           \* buffered channel of ProcessResult
  resultsClosed,     \* close(results) has run
  wg,                \* sync.WaitGroup counter
  workers,           \* one record per spawned workerWithPool goroutine
  idx,               \* loop index of the loop ProcessFiles is in
  closeIdx,          \* index of a `range transcribers` clean-up loop
  transcript,        \* transcript.Segments
  processingErrors,  \* local slice of ProcessFiles
  ret,               \* what ProcessFiles returned: [transcript, err]
  transcribed,       \* history: transcribed[j], what each call of TranscribeFile
                     \* on file j returned, in order
  verbose,           \* config.WhisperConfig.Verbose.  It shows only in what is
                     \* printed, so it is drawn where line 128 reads it
  warned,            \* the per-file failure lines printed at lines 132-136
  duration,          \* main: what transcript.Duration() returned; <<>>: not called
  audio,             \* the locals of a call of loadAudioFile
  cli                \* main: the --format flag and what became of it

vars == <<config, numCPU, pc, numTranscribers, maxParallel, transcribers,
          transcriberPool, newCalls, closeCalls, jobs, jobsClosed, results,
          resultsClosed, wg, workers, idx, closeIdx, transcript,
          processingErrors, ret, transcribed, verbose, warned,
          duration, audio, cli>>

\* The zero values of a worker's locals `transcriber` and `audioFile`.
NoHandle == 0
NoJob == [Path |-> 0, Speaker |-> 0]

\* No call of loadAudioFile is under way; main is not at its format checks.
NoAudio == [pc |-> "idle"]

NoCli == [pc |-> "idle"]

\* ProcessFiles has not returned yet.  A returned *Transcript is a sequence
\* of at most one transcript: <<>> is the nil pointer.
NotReturned == [returned |-> FALSE, transcript |-> <<>>, err |-> "", causes |-> <<>>]

Return(t, e, c) == [returned |-> TRUE, transcript |-> t, err |-> e, causes |-> c]

\* ----------------------------------------------------------------- inputs
\* AudioFile j of the batch: its path and its speaker label.
AudioFile(j) == [Path |-> j, Speaker |-> j]

AudioFiles(n) == [j \in 1..n |-> AudioFile(j)]

\* What the recognition engine yields for file j when it yields text: the
\* (text, start, end) triples ctx.NextSegment hands out, in order.
EngineSegments(path) ==
  CASE path = 1 -> << <<"a", 0, 5>>, <<"b", 5, 9>> >>
    [] path = 2 -> << <<"c", 2, 6>> >>
    [] path = 3 -> << <<"d", 0, 4>> >>
    [] OTHER    -> << <<"e", 5, 7>> >>

\* ------------------------------------------------------- models.Transcript
Segment(speaker, text, start, end) ==
  [Speaker |-> speaker, Text |-> text, StartTime |-> start, EndTime |-> end]

KeepLatest(segs, more) == more

AddSegments(segs, more) == segs \o more

LessOrEqual(a, b) == a.StartTime <= b.StartTime

LessByEnd(a, b) == a.EndTime < b.EndTime

\* The less function SortByTime hands to sort.Slice.
Less(a, b) == a.StartTime < b.StartTime

IsSortedByTime(segs) ==
  \A i \in 1..Len(segs) : \A k \in 1..Len(segs) :
     i < k => ~Less(segs[k], segs[i])

Perms(n) ==
  { p \in [1..n -> 1..n] : \A i \in 1..n : \E k \in 1..n : p[k] = i }

Swap(segs, i, k) == [segs EXCEPT ![i] = segs[k], ![k] = segs[i]]

\* The inner loop of insertion sort: element j moves down while it is less
\* than its predecessor.
RECURSIVE Sink(_, _)
Sink(segs, j) ==
  IF j > 1 /\ Less(segs[j], segs[j - 1])
    THEN Sink(Swap(segs, j, j - 1), j - 1)
    ELSE segs

RECURSIVE InsertionSortFrom(_, _)
InsertionSortFrom(segs, i) ==
  IF i > Len(segs) THEN segs ELSE InsertionSortFrom(Sink(segs, i), i + 1)

InsertionSort(segs) == InsertionSortFrom(segs, 2)

\* sort.Slice of the toolchain go.mod pins (go1.24.7) sorts a slice of at
\* most 12 elements by insertion sort.
SortsByInsertion(segs) == Len(segs) <= 12

Unsorted(segs) == {segs}

\* The orders SortByTime can leave the segments in.  Up to 12 segments:
\* the insertion sort's.  Beyond, sort.Slice promises no order among
\* segments of equal StartTime: every ordering of the same segments in
\* which no later segment has a smaller StartTime is a possible outcome.
SortByTimeOutcomes(segs) ==
  IF SortsByInsertion(segs)
    THEN {InsertionSort(segs)}
    ELSE { s \in { [i \in 1..Len(segs) |-> segs[p[i]]] : p \in Perms(Len(segs)) } :
             IsSortedByTime(s) }

DurationOfLast(segs) ==
  IF Len(segs) = 0 THEN 0 ELSE segs[Len(segs)].EndTime

\* The loop of Duration from segment i on, maxEndTime being its local.
RECURSIVE MaxEndTimeFrom(_, _, _)
MaxEndTimeFrom(segs, i, maxEndTime) ==
  IF i > Len(segs)
    THEN maxEndTime
    ELSE MaxEndTimeFrom(segs, i + 1,
                        IF segs[i].EndTime > maxEndTime
                          THEN segs[i].EndTime
                          ELSE maxEndTime)

Duration(segs) ==
  IF Len(segs) = 0 THEN 0 ELSE MaxEndTimeFrom(segs, 1, 0)

\* ------------------------------------------------- WhisperTranscriber
\* The error TranscribeFile returns for file `audioPath` when it fails: which
\* of its four failure paths is taken depends on the file and the engine.
TranscribeError(audioPath) ==
  CASE audioPath = 1 -> "failed to load audio file"
    [] audioPath = 2 -> "failed to process audio"
    [] audioPath = 3 -> "failed to create context"
    [] OTHER         -> "failed to set language"

StampNothing(triples, speakerLabel) ==
  [i \in 1..Len(triples) |->
     Segment(NoJob.Speaker, triples[i][1], triples[i][2], triples[i][3])]

\* The segment loop of TranscribeFile: every engine triple becomes a Segment
\* carrying the speaker label the caller passed in.
StampSegments(triples, speakerLabel) ==
  [i \in 1..Len(triples) |->
     Segment(speakerLabel, triples[i][1], triples[i][2], triples[i][3])]

PartialSegmentsOnError(audioPath, speakerLabel) ==
  { [Segments |-> StampSegments(EngineSegments(audioPath), speakerLabel),
     Error |-> TranscribeError(audioPath)],
    [Segments |-> StampSegments(EngineSegments(audioPath), speakerLabel),
     Error |-> "nil"],
    [Segments |-> <<>>, Error |-> "nil"] }

\* Every (segments, err) pair a call of TranscribeFile can return: nil
\* segments with an error, or the engine's segments (possibly none) and nil.
TranscribeFileOutcomes(audioPath, speakerLabel) ==
  { [Segments |-> <<>>, Error |-> TranscribeError(audioPath)],
    [Segments |-> StampSegments(EngineSegments(audioPath), speakerLabel),
     Error |-> "nil"],
    [Segments |-> <<>>, Error |-> "nil"] }

\* ------------------------------------------------------ ProcessFiles
OnePerFileByDefault(n) == IF n <= 0 THEN Len(config.AudioFiles) ELSE n

ResolveNumTranscribers(n) == IF n <= 0 THEN 1 ELSE n

OneWorkerByDefault(p, ncpu) == IF p <= 0 THEN 1 ELSE p

DefaultMaxParallel(p, ncpu) == IF p <= 0 THEN ncpu ELSE p

NoLimit(p, nt) == p

LimitWorkers(p, nt) == IF p > nt THEN nt ELSE p

Init ==
  /\ config \in [AudioFiles : {AudioFiles(n) : n \in 0..MaxAudioFiles},
                 MaxParallel : -1..MaxMaxParallel,
                 NumTranscribers : -1..MaxNumTranscribers]
  /\ numCPU = 0
  /\ pc = "entry"
  /\ numTranscribers = 0
  /\ maxParallel = 0
  /\ transcribers = <<>>
  /\ transcriberPool = <<>>
  /\ newCalls = 0
  /\ closeCalls = <<>>
  /\ jobs = <<>>
  /\ jobsClosed = FALSE
  /\ results = <<>>
  /\ resultsClosed = FALSE
  /\ wg = 0
  /\ workers = <<>>
  /\ idx = 0
  /\ closeIdx = 0
  /\ transcript = <<>>
  /\ processingErrors = <<>>
  /\ ret = NotReturned
  /\ transcribed = [j \in 1..Len(config.AudioFiles) |-> <<>>]
  /\ verbose = FALSE
  /\ warned = <<>>
  /\ duration = <<>>
  /\ audio = NoAudio
  /\ cli = NoCli

\* len(config.AudioFiles) == 0: return before anything is created.
NoAudioFiles ==
  /\ pc = "entry"
  /\ Len(config.AudioFiles) = 0
  /\ ret' = Return(<<>>, "no audio files provided", <<>>)
  /\ pc' = "done"
  /\ UNCHANGED <<duration, audio, cli, transcribed, verbose, warned,
                 closeIdx, config, numCPU, numTranscribers, maxParallel, transcribers,
                 transcriberPool, newCalls, closeCalls, jobs, jobsClosed,
                 results, resultsClosed, wg, workers, idx, transcript,
                 processingErrors>>

\* Resolve the pool size and the worker count, make the pool channel.
Resolve ==
  /\ pc = "entry"
  /\ Len(config.AudioFiles) > 0
  /\ numTranscribers' = ResolveNumTranscribers(config.NumTranscribers)
  /\ \E ncpu \in 1..MaxNumCPU :
       /\ numCPU' = IF config.MaxParallel <= 0 THEN ncpu ELSE 0
       /\ maxParallel' = LimitWorkers(DefaultMaxParallel(config.MaxParallel, ncpu),
                                      numTranscribers')
  /\ transcriberPool' = <<>>
  /\ transcribers' = <<>>
  /\ idx' = 0
  /\ pc' = "createPool"
  /\ UNCHANGED <<duration, audio, cli, transcribed, verbose, warned,
                 closeIdx, config, newCalls, closeCalls, jobs, jobsClosed,
                 results, resultsClosed, wg, workers, transcript,
                 processingErrors, ret>>

\* make(chan *WhisperTranscriber, numTranscribers)
PoolCapacity == numTranscribers

\* make(chan AudioFile, len(config.AudioFiles))
JobsCapacity == Len(config.AudioFiles)

ResultsCapacityOneShort == Len(config.AudioFiles) - 1

\* make(chan ProcessResult, len(config.AudioFiles))
ResultsCapacity == Len(config.AudioFiles)

CreateLoopOneMore == idx <= numTranscribers

CreateLoopGuard == idx < numTranscribers

\* One iteration of the creation loop in which NewWhisperTranscriber
\* succeeds: the new handle is appended and sent to the pool.
CreateTranscriber ==
  /\ pc = "createPool"
  /\ CreateLoopGuard
  /\ Len(transcriberPool) < PoolCapacity
  /\ newCalls' = newCalls + 1
  /\ transcribers' = Append(transcribers, Len(transcribers) + 1)
  /\ closeCalls' = Append(closeCalls, 0)
  /\ transcriberPool' = Append(transcriberPool, Len(transcribers) + 1)
  /\ idx' = idx + 1
  /\ UNCHANGED <<duration, audio, cli, transcribed, verbose, warned,
                 closeIdx, config, numCPU, pc, numTranscribers, maxParallel, jobs,
                 jobsClosed, results, resultsClosed, wg, workers, transcript,
                 processingErrors, ret>>

\* One iteration in which NewWhisperTranscriber returns an error: go on to
\* close what was created.  idx keeps i for the error message.
CreateTranscriberFails ==
  /\ pc = "createPool"
  /\ CreateLoopGuard
  /\ newCalls' = newCalls + 1
  /\ pc' = "cleanup"
  /\ UNCHANGED <<duration, audio, cli, transcribed, verbose, warned,
                 closeIdx, config, numCPU, numTranscribers, maxParallel, transcribers,
                 transcriberPool, closeCalls, jobs, jobsClosed, results,
                 resultsClosed, wg, workers, idx, transcript,
                 processingErrors, ret>>

Close(h) == closeCalls' = [closeCalls EXCEPT ![h] = @ + 1]

CleanupRangeSkipsLast == Len(transcribers) - 1

\* The number of elements `range transcribers` visits on the failure path.
CleanupRange == Len(transcribers)

\* for _, t := range transcribers { t.Close() } on the failure path.
CleanupClose ==
  /\ pc = "cleanup"
  /\ closeIdx < CleanupRange
  /\ Close(transcribers[closeIdx + 1])
  /\ closeIdx' = closeIdx + 1
  /\ UNCHANGED <<duration, audio, cli, transcribed, verbose, warned,
                 config, numCPU, pc, numTranscribers, maxParallel,
                 transcribers, transcriberPool, newCalls, jobs, jobsClosed,
                 results, resultsClosed, wg, workers, idx, transcript,
                 processingErrors, ret>>

CleanupReturn ==
  /\ pc = "cleanup"
  /\ ~(closeIdx < CleanupRange)
  /\ ret' = Return(<<>>, "failed to create transcriber", <<idx + 1>>)
  /\ pc' = "done"
  /\ UNCHANGED <<duration, audio, cli, transcribed, verbose, warned,
                 config, numCPU, numTranscribers, maxParallel, transcribers,
                 transcriberPool, newCalls, closeCalls, jobs, jobsClosed,
                 results, resultsClosed, wg, workers, idx, closeIdx,
                 transcript, processingErrors>>

\* The creation loop ends: the deferred clean-up is registered and the jobs
\* and results channels are made.
PoolCreated ==
  /\ pc = "createPool"
  /\ ~CreateLoopGuard
  /\ jobs' = <<>>
  /\ results' = <<>>
  /\ idx' = 0
  /\ pc' = "spawn"
  /\ UNCHANGED <<duration, audio, cli, transcribed, verbose, warned,
                 closeIdx, config, numCPU, numTranscribers, maxParallel, transcribers,
                 transcriberPool, newCalls, closeCalls, jobsClosed,
                 resultsClosed, wg, workers, transcript, processingErrors, ret>>

NewWorker == [pc |-> "range", audioFile |-> NoJob, transcriber |-> NoHandle,
              segments |-> <<>>, err |-> "nil"]

WaitGroupWithoutAdd == wg

\* The counter after wg.Add(1).
WaitGroupAfterAdd == wg + 1

\* wg.Add(1); go workerWithPool(i, ...)
Spawn ==
  /\ pc = "spawn"
  /\ idx < maxParallel
  /\ wg' = WaitGroupAfterAdd
  /\ workers' = Append(workers, NewWorker)
  /\ idx' = idx + 1
  /\ UNCHANGED <<duration, audio, cli, transcribed, verbose, warned,
                 closeIdx, config, numCPU, pc, numTranscribers, maxParallel,
                 transcribers, transcriberPool, newCalls, closeCalls, jobs,
                 jobsClosed, results, resultsClosed, transcript,
                 processingErrors, ret>>

SpawnDone ==
  /\ pc = "spawn"
  /\ ~(idx < maxParallel)
  /\ idx' = 0
  /\ pc' = "send"
  /\ UNCHANGED <<duration, audio, cli, transcribed, verbose, warned,
                 closeIdx, config, numCPU, numTranscribers, maxParallel, transcribers,
                 transcriberPool, newCalls, closeCalls, jobs, jobsClosed,
                 results, resultsClosed, wg, workers, transcript,
                 processingErrors, ret>>

\* jobs <- audioFile, on a channel of capacity len(config.AudioFiles).
SendJob ==
  /\ pc = "send"
  /\ idx < Len(config.AudioFiles)
  /\ Len(jobs) < JobsCapacity
  /\ jobs' = Append(jobs, config.AudioFiles[idx + 1])
  /\ idx' = idx + 1
  /\ UNCHANGED <<duration, audio, cli, transcribed, verbose, warned,
                 closeIdx, config, numCPU, pc, numTranscribers, maxParallel,
                 transcribers, transcriberPool, newCalls, closeCalls,
                 jobsClosed, results, resultsClosed, wg, workers, transcript,
                 processingErrors, ret>>

JobsLeftOpen == jobsClosed

JobsClosedAfterClose == TRUE

\* close(jobs)
CloseJobs ==
  /\ pc = "send"
  /\ ~(idx < Len(config.AudioFiles))
  /\ jobsClosed' = JobsClosedAfterClose
  /\ pc' = "wait"
  /\ UNCHANGED <<duration, audio, cli, transcribed, verbose, warned,
                 closeIdx, config, numCPU, numTranscribers, maxParallel, transcribers,
                 transcriberPool, newCalls, closeCalls, jobs, results,
                 resultsClosed, wg, workers, idx, transcript,
                 processingErrors, ret>>

NoWait == TRUE

WaitGroupDone == wg = 0

\* wg.Wait(); close(results)
Wait ==
  /\ pc = "wait"
  /\ WaitGroupDone
  /\ resultsClosed' = TRUE
  /\ pc' = "collect"
  /\ UNCHANGED <<duration, audio, cli, transcribed, verbose, warned,
                 closeIdx, config, numCPU, numTranscribers, maxParallel, transcribers,
                 transcriberPool, newCalls, closeCalls, jobs, jobsClosed,
                 results, wg, workers, idx, transcript, processingErrors, ret>>

ProcessingErrorNoSpeaker(result) == [Speaker |-> NoJob.Speaker, Error |-> result.Error]

ProcessingError(result) == [Speaker |-> result.Speaker, Error |-> result.Error]

\* One iteration of `for result := range results`.
Collect ==
  /\ pc = "collect"
  /\ results # <<>>
  /\ results' = Tail(results)
  /\ IF Head(results).Error # "nil"
       THEN /\ processingErrors' =
                 Append(processingErrors, ProcessingError(Head(results)))
            /\ UNCHANGED transcript
       ELSE /\ transcript' = AddSegments(transcript, Head(results).Segments)
            /\ UNCHANGED processingErrors
  /\ UNCHANGED <<duration, audio, cli, transcribed, verbose, warned,
                 closeIdx, config, numCPU, pc, numTranscribers, maxParallel,
                 transcribers, transcriberPool, newCalls, closeCalls, jobs,
                 jobsClosed, resultsClosed, wg, workers, idx, ret>>

FailedIfAnyError == Len(transcript) = 0 \/ Len(processingErrors) > 0

NoEmptyCheck == FALSE

\* if len(transcript.Segments) == 0
NothingTranscribed == Len(transcript) = 0

WarningsNever(v) == <<>>

\* What the `if config.WhisperConfig.Verbose` block at the end prints about
\* the failed files.
Warnings(v) == IF v THEN processingErrors ELSE <<>>

\* The range loop ends on the closed, drained channel; then the check of
\* len(transcript.Segments), SortByTime, the verbose summary and the return
\* statement.
Finish ==
  /\ pc = "collect"
  /\ results = <<>>
  /\ resultsClosed
  /\ IF NothingTranscribed
       THEN /\ ret' = IF Len(processingErrors) > 0
                        THEN Return(<<>>, "all transcriptions failed",
                                    processingErrors)
                        ELSE Return(<<>>, "no segments produced from transcription",
                                    <<>>)
            /\ UNCHANGED <<transcript, verbose, warned>>
       ELSE /\ transcript' \in SortByTimeOutcomes(transcript)
            /\ verbose' \in BOOLEAN
            /\ warned' = Warnings(verbose')
            /\ ret' = Return(<<[Segments |-> transcript']>>, "nil", <<>>)
  /\ pc' = "deferred"
  /\ UNCHANGED <<duration, audio, cli, transcribed,
                 closeIdx, config, numCPU, numTranscribers, maxParallel, transcribers,
                 transcriberPool, newCalls, closeCalls, jobs, jobsClosed,
                 results, resultsClosed, wg, workers, idx, processingErrors>>

DeferredRangeSkipsLast == Len(transcribers) - 1

\* The number of elements `range transcribers` visits in the deferred func.
DeferredRange == Len(transcribers)

\* The deferred func: for _, t := range transcribers { t.Close() }
DeferredClose ==
  /\ pc = "deferred"
  /\ closeIdx < DeferredRange
  /\ Close(transcribers[closeIdx + 1])
  /\ closeIdx' = closeIdx + 1
  /\ UNCHANGED <<duration, audio, cli, transcribed, verbose, warned,
                 config, numCPU, pc, numTranscribers, maxParallel,
                 transcribers, transcriberPool, newCalls, jobs, jobsClosed,
                 results, resultsClosed, wg, workers, idx, transcript,
                 processingErrors, ret>>

\* The deferred func has run: ProcessFiles has returned to its caller.
Returned ==
  /\ pc = "deferred"
  /\ ~(closeIdx < DeferredRange)
  /\ pc' = "done"
  /\ UNCHANGED <<duration, audio, cli, transcribed, verbose, warned,
                 config, numCPU, numTranscribers, maxParallel, transcribers,
                 transcriberPool, newCalls, closeCalls, jobs, jobsClosed,
                 results, resultsClosed, wg, workers, idx, closeIdx,
                 transcript, processingErrors, ret>>

\* ---------------------------------------------------- workerWithPool
SetWorker(w, rec) == workers' = [workers EXCEPT ![w] = rec]

JobsAfterPeek == jobs

\* The jobs channel after a receive took its head.
JobsAfterDequeue == Tail(jobs)

\* `for audioFile := range jobs`: receive the next job.
WorkerDequeue(w) ==
  /\ workers[w].pc = "range"
  /\ jobs # <<>>
  /\ jobs' = JobsAfterDequeue
  /\ SetWorker(w, [workers[w] EXCEPT !.pc = "borrow", !.audioFile = Head(jobs)])
  /\ UNCHANGED <<duration, audio, cli, transcribed, verbose, warned,
                 closeIdx, config, numCPU, pc, numTranscribers, maxParallel,
                 transcribers, transcriberPool, newCalls, closeCalls,
                 jobsClosed, results, resultsClosed, wg, idx, transcript,
                 processingErrors, ret>>

\* The range loop ends on the closed and drained channel; deferred wg.Done().
WorkerExit(w) ==
  /\ workers[w].pc = "range"
  /\ jobs = <<>>
  /\ jobsClosed
  /\ wg' = wg - 1
  /\ SetWorker(w, [workers[w] EXCEPT !.pc = "done"])
  /\ UNCHANGED <<duration, audio, cli, transcribed, verbose, warned,
                 closeIdx, config, numCPU, pc, numTranscribers, maxParallel,
                 transcribers, transcriberPool, newCalls, closeCalls, jobs,
                 jobsClosed, results, resultsClosed, idx, transcript,
                 processingErrors, ret>>

PoolAfterPeek == transcriberPool

\* The pool channel after `<-transcriberPool` took its head.
PoolAfterBorrow == Tail(transcriberPool)

\* transcriber := <-transcriberPool, then the call of TranscribeFile begins.
WorkerBorrow(w) ==
  /\ workers[w].pc = "borrow"
  /\ transcriberPool # <<>>
  /\ transcriberPool' = PoolAfterBorrow
  /\ SetWorker(w, [workers[w] EXCEPT !.pc = "transcribe",
                                     !.transcriber = Head(transcriberPool)])
  /\ UNCHANGED <<duration, audio, cli, transcribed, verbose, warned,
                 closeIdx, config, numCPU, pc, numTranscribers, maxParallel,
                 transcribers, newCalls, closeCalls, jobs, jobsClosed,
                 results, resultsClosed, wg, idx, transcript,
                 processingErrors, ret>>

\* TranscribeFile returns its (segments, err).
WorkerTranscribe(w) ==
  /\ workers[w].pc = "transcribe"
  /\ \E o \in TranscribeFileOutcomes(workers[w].audioFile.Path,
                                     workers[w].audioFile.Speaker) :
       /\ SetWorker(w, [workers[w] EXCEPT !.pc = "return",
                                          !.segments = o.Segments,
                                          !.err = o.Error])
       /\ transcribed' = [transcribed EXCEPT ![workers[w].audioFile.Path] =
                                                Append(@, o)]
  /\ UNCHANGED <<duration, audio, cli, verbose, warned,
                 closeIdx, config, numCPU, pc, numTranscribers, maxParallel,
                 transcribers, transcriberPool, newCalls, closeCalls, jobs,
                 jobsClosed, results, resultsClosed, wg, idx, transcript,
                 processingErrors, ret>>

ReturnOnSuccessOnly(w) ==
  IF workers[w].err = "nil"
    THEN Append(transcriberPool, workers[w].transcriber)
    ELSE transcriberPool

\* The pool channel after `transcriberPool <- transcriber`.
PoolAfterReturn(w) == Append(transcriberPool, workers[w].transcriber)

\* transcriberPool <- transcriber
WorkerReturn(w) ==
  /\ workers[w].pc = "return"
  /\ Len(transcriberPool) < PoolCapacity
  /\ transcriberPool' = PoolAfterReturn(w)
  /\ SetWorker(w, [workers[w] EXCEPT !.pc = "result", !.transcriber = NoHandle])
  /\ UNCHANGED <<duration, audio, cli, transcribed, verbose, warned,
                 closeIdx, config, numCPU, pc, numTranscribers, maxParallel,
                 transcribers, newCalls, closeCalls, jobs, jobsClosed,
                 results, resultsClosed, wg, idx, transcript,
                 processingErrors, ret>>

ProcessResult(w) ==
  [Speaker |-> workers[w].audioFile.Speaker,
   Segments |-> workers[w].segments,
   Error |-> workers[w].err]

\* results <- ProcessResult{...}, on a channel of capacity len(AudioFiles).
WorkerSendResult(w) ==
  /\ workers[w].pc = "result"
  /\ Len(results) < ResultsCapacity
  /\ results' = Append(results, ProcessResult(w))
  /\ SetWorker(w, [workers[w] EXCEPT !.pc = "range", !.audioFile = NoJob,
                                     !.segments = <<>>, !.err = "nil"])
  /\ UNCHANGED <<duration, audio, cli, transcribed, verbose, warned,
                 closeIdx, config, numCPU, pc, numTranscribers, maxParallel,
                 transcribers, transcriberPool, newCalls, closeCalls, jobs,
                 jobsClosed, resultsClosed, wg, idx, transcript,
                 processingErrors, ret>>

\* ------------------------------------------------------ specification
Next ==
  \/ NoAudioFiles
  \/ Resolve
  \/ CreateTranscriber
  \/ CreateTranscriberFails
  \/ CleanupClose
  \/ CleanupReturn
  \/ PoolCreated
  \/ Spawn
  \/ SpawnDone
  \/ SendJob
  \/ CloseJobs
  \/ Wait
  \/ Collect
  \/ Finish
  \/ DeferredClose
  \/ Returned
  \/ \E w \in 1..Len(workers) : WorkerDequeue(w)
  \/ \E w \in 1..Len(workers) : WorkerExit(w)
  \/ \E w \in 1..Len(workers) : WorkerBorrow(w)
  \/ \E w \in 1..Len(workers) : WorkerTranscribe(w)
  \/ \E w \in 1..Len(workers) : WorkerReturn(w)
  \/ \E w \in 1..Len(workers) : WorkerSendResult(w)

Spec == Init /\ [][Next]_vars

\* Scheduling: some goroutine that can take a step eventually takes one,
\* and every call of TranscribeFile returns.
FairSpec == Spec /\ WF_vars(Next)

\* ------------------------------------------------------------ properties
\* K: the pool size the configuration asks for.
PoolSizeK == IF config.NumTranscribers > 0 THEN config.NumTranscribers ELSE 1

\* P: the parallelism the configuration asks for.
ParallelP == IF config.MaxParallel > 0 THEN config.MaxParallel ELSE numCPU

Min(a, b) == IF a < b THEN a ELSE b

WorkerIds == 1..Len(workers)

Handles == 1..Len(transcribers)

\* The workers inside the call of TranscribeFile.
Inside == { w \in WorkerIds : workers[w].pc = "transcribe" }

\* The workers between their borrow and their return.
Holders == { w \in WorkerIds : workers[w].transcriber # NoHandle }

InPool(h) == \E i \in 1..Len(transcriberPool) : transcriberPool[i] = h

PoolFailed == pc = "cleanup" \/ (pc = "done" /\ ret.err = "failed to create transcriber")

\* The creation loop has ended without a failure.
PoolReady ==
  \/ pc \in {"spawn", "send", "wait", "collect", "deferred"}
  \/ pc = "done" /\ ret.err \notin {"no audio files provided", "failed to create transcriber"}

AllWorkersDone == \A w \in WorkerIds : workers[w].pc = "done"

\* C1: at no instant are more than K jobs inside the TranscribeFile step,
\* K being the resolved pool size.
C1_AtMostKInside == Cardinality(Inside) <= PoolSizeK

C1_Witness == PoolSizeK = 2 /\ Cardinality(Inside) = 2

\* C2: a handle is never held by two workers at once, and a handle a worker
\* holds between its borrow and its return is not in the pool; a worker
\* inside TranscribeFile holds a handle.
C2_ExclusiveHandle ==
  /\ \A w \in Inside : w \in Holders
  /\ \A w \in Holders : ~InPool(workers[w].transcriber)
  /\ \A w1 \in Holders : \A w2 \in Holders :
       w1 # w2 => workers[w1].transcriber # workers[w2].transcriber

C2_Witness ==
  \E w1 \in Inside : \E w2 \in Inside :
    w1 # w2 /\ workers[w1].transcriber # workers[w2].transcriber

\* C3: free handles plus held handles are all the handles created, K of them
\* once the pool is created; a worker holds at most one handle and none once
\* it is past its return step, after an error as after a success; when all
\* workers have finished the pool holds every handle again.
C3_BorrowReturnBalanced ==
  /\ Len(transcriberPool) + Cardinality(Holders) = Len(transcribers)
  /\ PoolReady => Len(transcriberPool) + Cardinality(Holders) = PoolSizeK
  /\ \A w \in WorkerIds :
       workers[w].pc \in {"range", "borrow", "result", "done"}
         => workers[w].transcriber = NoHandle
  /\ (PoolReady /\ pc # "spawn" /\ AllWorkersDone)
       => /\ Len(transcriberPool) = PoolSizeK
          /\ \A h \in Handles : InPool(h)

C3_Witness ==
  \E w \in WorkerIds :
    /\ workers[w].pc = "result"
    /\ workers[w].err # "nil"
    /\ Len(transcriberPool) = PoolSizeK

\* C4: when ProcessFiles has returned, Close has been called exactly once on
\* every handle that was created, and at no time more than once.
C4_ClosedExactlyOnce ==
  /\ \A h \in Handles : closeCalls[h] <= 1
  /\ pc = "done" => \A h \in Handles : closeCalls[h] = 1

C4_Witness ==
  /\ pc = "done"
  /\ Len(transcribers) = 2
  /\ ret.err = "all transcriptions failed"
  /\ \A h \in Handles : closeCalls[h] = 1

\* C5: a handle is closed only when every worker has terminated, and no
\* worker is inside TranscribeFile, or holds, a closed handle.
C5_CloseAfterWorkers ==
  /\ (\E h \in Handles : closeCalls[h] > 0) => AllWorkersDone
  /\ \A w \in Holders : closeCalls[workers[w].transcriber] = 0

C5_Witness ==
  /\ pc = "deferred"
  /\ closeCalls[1] = 1
  /\ Len(workers) = 2
  /\ AllWorkersDone

\* C6: when the creation of a handle fails, every handle created before it
\* is closed, ProcessFiles returns a nil transcript and an error, and no
\* worker was spawned and no job enqueued, dequeued or transcribed.
C6_AllOrNothing ==
  /\ PoolFailed => /\ workers = <<>>
                   /\ wg = 0
                   /\ jobs = <<>>
                   /\ results = <<>>
  /\ (pc = "done" /\ ret.err = "failed to create transcriber")
       => /\ ret.transcript = <<>>
          /\ \A h \in Handles : closeCalls[h] = 1
          /\ Len(transcribers) = ret.causes[1] - 1

C6_Witness ==
  /\ pc = "done"
  /\ ret.err = "failed to create transcriber"
  /\ ret.causes = <<2>>
  /\ closeCalls = <<1>>

\* C7: NewWhisperTranscriber is never called more than K times, and in a run
\* whose pool creation succeeds it has been called exactly K times when the
\* creation loop ends, hence before any worker exists, and never after.
C7_CreatedOncePerSlot ==
  /\ newCalls <= PoolSizeK
  /\ PoolReady => newCalls = PoolSizeK /\ Len(transcribers) = PoolSizeK
  /\ workers # <<>> => newCalls = PoolSizeK

C7_Witness ==
  /\ pc = "done"
  /\ ret.err = "nil"
  /\ Len(processingErrors) = 1
  /\ newCalls = 2

\* C8: once the spawn loop has ended the number of workers is min(P, K), and
\* it is at least 1 and at most K.
C8_WorkerCount ==
  (PoolReady /\ pc # "spawn")
    => /\ Len(workers) = Min(ParallelP, PoolSizeK)
       /\ 1 <= Len(workers)
       /\ Len(workers) <= PoolSizeK

C8_Witness ==
  /\ pc = "send"
  /\ ParallelP > PoolSizeK
  /\ Len(workers) = PoolSizeK

\* C9: a worker at the borrow step finds a free handle in the pool.
C9_BorrowNeverWaits ==
  \A w \in WorkerIds : workers[w].pc = "borrow" => Len(transcriberPool) >= 1

C9_Witness ==
  \E w1 \in WorkerIds : \E w2 \in WorkerIds :
    /\ workers[w1].pc = "borrow"
    /\ workers[w2].pc = "transcribe"
    /\ Len(transcriberPool) = 1

\* C10: under fair scheduling every run ends: all workers exit and
\* ProcessFiles returns a result.
C10_Terminates == <>(pc = "done" /\ ret.returned /\ AllWorkersDone /\ wg = 0)

C10_Witness ==
  /\ pc = "done"
  /\ ret.err = "nil"
  /\ Len(workers) = 2
  /\ AllWorkersDone
  /\ Len(config.AudioFiles) = MaxAudioFiles

\* ------------------------------------------------- jobs and results
JobIds == 1..Len(config.AudioFiles)

SpeakerOf(j) == config.AudioFiles[j].Speaker

Count(seq, x) == Cardinality({ i \in 1..Len(seq) : seq[i] = x })

\* Job j has not been sent to the jobs channel yet.
Unsent(j) == pc = "spawn" \/ (pc = "send" /\ idx < j)

QueuedAt(j) == { i \in 1..Len(jobs) : jobs[i] = config.AudioFiles[j] }

WorkersOn(j) == { w \in WorkerIds : workers[w].audioFile = config.AudioFiles[j] }

ResultsOf(j) == { i \in 1..Len(results) : results[i].Speaker = SpeakerOf(j) }

\* The workers have all exited and wg.Wait is about to return: what the
\* collector will find in the results channel.
CollectorStarts == pc = "wait" /\ wg = 0

\* Every job has been through TranscribeFile exactly once.
AllTranscribedOnce == \A j \in JobIds : Len(transcribed[j]) = 1

\* What TranscribeFile returned for job j.
Outcome(j) == transcribed[j][1]

Succeeded(j) == Outcome(j).Error = "nil"

\* ProcessFiles is past the collection of the results of a created pool.
Assembled == pc \in {"deferred", "done"} /\ PoolReady

\* The segment lists of the jobs without error, concatenated in file order.
RECURSIVE SuccessfulSegments(_)
SuccessfulSegments(j) ==
  IF j = 0 THEN <<>>
  ELSE SuccessfulSegments(j - 1)
         \o (IF Succeeded(j) THEN Outcome(j).Segments ELSE <<>>)

IsPermutation(a, b) ==
  /\ Len(a) = Len(b)
  /\ \A i \in 1..Len(a) : Count(a, a[i]) = Count(b, a[i])

NonDecreasingStart(segs) ==
  \A i \in 1..(Len(segs) - 1) : segs[i].StartTime <= segs[i + 1].StartTime

\* C11: every job is in exactly one place (not yet sent, in the jobs
\* channel, with one worker, or as one result in the results channel), no
\* job goes through TranscribeFile twice, and when the collector starts the
\* results channel holds exactly one result per input file.
C11_OneResultPerJob ==
  /\ pc \in {"spawn", "send", "wait"} =>
       \A j \in JobIds :
         (IF Unsent(j) THEN 1 ELSE 0) + Cardinality(QueuedAt(j))
           + Cardinality(WorkersOn(j)) + Cardinality(ResultsOf(j)) = 1
  /\ \A j \in JobIds : Len(transcribed[j]) <= 1
  /\ CollectorStarts =>
       /\ Len(results) = Len(config.AudioFiles)
       /\ \A j \in JobIds : Cardinality(ResultsOf(j)) = 1
       /\ AllTranscribedOnce
       /\ \A j \in JobIds : \A i \in ResultsOf(j) :
            /\ results[i].Segments = Outcome(j).Segments
            /\ results[i].Error = Outcome(j).Error

C11_Witness ==
  /\ CollectorStarts
  /\ Len(workers) = 2
  /\ Len(results) = 2
  /\ results[1].Speaker = SpeakerOf(2)

\* C12: a failed job does not abort the batch: every job is transcribed,
\* and when some job produced a segment ProcessFiles returns a transcript
\* and no error, the transcript holds segments of every successful job that
\* produced some and of no failed job, and the failures recorded are exactly
\* the failed jobs, each under its speaker.
C12_FailureDoesNotAbort ==
  Assembled =>
    /\ AllTranscribedOnce
    /\ (\E j \in JobIds : Succeeded(j) /\ Outcome(j).Segments # <<>>) =>
         /\ ret.err = "nil"
         /\ Len(ret.transcript) = 1
         /\ \A j \in JobIds :
              (Succeeded(j) /\ Outcome(j).Segments # <<>>)
                <=> \E i \in 1..Len(ret.transcript[1].Segments) :
                      ret.transcript[1].Segments[i].Speaker = SpeakerOf(j)
         /\ Len(processingErrors) = Cardinality({ j \in JobIds : ~Succeeded(j) })
         /\ \A j \in JobIds :
              ~Succeeded(j) =>
                Count(processingErrors,
                      [Speaker |-> SpeakerOf(j), Error |-> Outcome(j).Error]) = 1

C12_Witness ==
  /\ pc = "done"
  /\ ret.err = "nil"
  /\ Len(config.AudioFiles) = 2
  /\ ~Succeeded(1)
  /\ Len(ret.transcript[1].Segments) > 0
  /\ processingErrors = <<[Speaker |-> SpeakerOf(1), Error |-> "failed to load audio file"]>>

\* C13: with a created pool ProcessFiles returns an error exactly when no
\* successful job produced a segment, and then a nil transcript; otherwise
\* it returns a non-nil transcript and a nil error.
C13_ErrorIffNoSegments ==
  Assembled =>
    /\ (ret.err # "nil") <=> (SuccessfulSegments(Len(config.AudioFiles)) = <<>>)
    /\ (ret.err = "nil") <=> (Len(ret.transcript) = 1)
    /\ ret.returned

C13_Witness ==
  /\ pc = "done"
  /\ ret.err = "no segments produced from transcription"
  /\ verbose = FALSE
  /\ Len(config.AudioFiles) = 2
  /\ Succeeded(1)
  /\ Succeeded(2)

\* C14: when every job fails ProcessFiles fails, and the error it returns
\* lists one cause per job, under that job's speaker.
C14_AllCausesReported ==
  (Assembled /\ \A j \in JobIds : ~Succeeded(j)) =>
    /\ ret.err = "all transcriptions failed"
    /\ ret.transcript = <<>>
    /\ Len(ret.causes) = Len(config.AudioFiles)
    /\ \A j \in JobIds :
         Count(ret.causes,
               [Speaker |-> SpeakerOf(j), Error |-> Outcome(j).Error]) = 1

C14_Witness ==
  /\ pc = "done"
  /\ ret.err = "all transcriptions failed"
  /\ Len(config.AudioFiles) = 2
  /\ ~Succeeded(1)
  /\ ~Succeeded(2)
  /\ Len(ret.causes) = 2
  /\ ret.causes[1].Speaker = SpeakerOf(2)

\* C15: a run in which some jobs fail and some job produces segments
\* returns the transcript and reports the failed inputs: in the value it
\* returns or in what it prints, whatever Verbose is.
C15_PartialFailuresReported ==
  (Assembled /\ ret.err = "nil" /\ Len(processingErrors) > 0) =>
    /\ Len(ret.transcript) = 1
    /\ ret.causes = processingErrors \/ warned = processingErrors

\* C16: the transcript ProcessFiles returns has non-decreasing StartTime.
C16_SortedByStart ==
  (ret.returned /\ ret.err = "nil") =>
    /\ Len(ret.transcript) = 1
    /\ NonDecreasingStart(ret.transcript[1].Segments)

C16_Witness ==
  /\ pc = "done"
  /\ ret.err = "nil"
  /\ Len(ret.transcript[1].Segments) = 3
  /\ ret.transcript[1].Segments[2].Speaker = SpeakerOf(2)

\* C19: the transcript returned is a permutation of the concatenation of
\* the segment lists of exactly the jobs that returned no error.
C19_PermutationOfSuccessful ==
  (Assembled /\ ret.err = "nil") =>
    /\ Len(ret.transcript) = 1
    /\ IsPermutation(ret.transcript[1].Segments,
                     SuccessfulSegments(Len(config.AudioFiles)))

C19_Witness ==
  /\ pc = "done"
  /\ ret.err = "nil"
  /\ Len(config.AudioFiles) = 2
  /\ Succeeded(1)
  /\ ~Succeeded(2)
  /\ Len(ret.transcript[1].Segments) = 2

\* The file the engine produced the triple of this segment from.
FromFile(seg, j) ==
  \E i \in 1..Len(EngineSegments(config.AudioFiles[j].Path)) :
    EngineSegments(config.AudioFiles[j].Path)[i]
      = <<seg.Text, seg.StartTime, seg.EndTime>>

StampedFor(segs) ==
  \A i \in 1..Len(segs) :
    \E j \in JobIds : FromFile(segs[i], j) /\ segs[i].Speaker = SpeakerOf(j)

\* C20: every segment of a worker's result, of a result in the channel and
\* of the transcript carries the speaker label of the file it came from.
C20_SpeakerStamped ==
  /\ \A w \in WorkerIds :
       /\ StampedFor(workers[w].segments)
       /\ \A i \in 1..Len(workers[w].segments) :
            workers[w].segments[i].Speaker = workers[w].audioFile.Speaker
  /\ \A r \in 1..Len(results) :
       /\ StampedFor(results[r].Segments)
       /\ \A i \in 1..Len(results[r].Segments) :
            results[r].Segments[i].Speaker = results[r].Speaker
  /\ StampedFor(transcript)
  /\ Len(ret.transcript) = 1 => StampedFor(ret.transcript[1].Segments)

C20_Witness ==
  /\ pc = "done"
  /\ Len(config.AudioFiles) = 2
  /\ Len(workers) = 2
  /\ Len(ret.transcript) = 1
  /\ \E i \in 1..Len(ret.transcript[1].Segments) :
       ret.transcript[1].Segments[i].Speaker = SpeakerOf(2)
  /\ \E i \in 1..Len(ret.transcript[1].Segments) :
       ret.transcript[1].Segments[i].Speaker = SpeakerOf(1)

\* ------------------------------------------------------------ assembly
\* The collection of the results, the return, and a caller that sorts the
\* returned transcript once more, started where wg.Wait has returned, for
\* every order of arrival of the results and a wider choice of what the
\* engine produced for each file.
EngineScripts ==
  { <<>>,
    << <<"a", 0, 5>>, <<"b", 5, 9>> >>,
    << <<"c", 2, 6>> >>,
    << <<"d", 5, 8>> >>,
    << <<"e", 0, 9>> >> }

\* What TranscribeFile returned for file j: an error, or the stamped script.
ScriptedOutcome(j, o) ==
  IF o.ok
    THEN [Segments |-> StampSegments(o.script, AudioFile(j).Speaker),
          Error |-> "nil"]
    ELSE [Segments |-> <<>>, Error |-> TranscribeError(AudioFile(j).Path)]

AssembleInit ==
  \E n \in 1..MaxAudioFiles :
    \E order \in Perms(n) :
      \E o \in [1..n -> [script : EngineScripts, ok : BOOLEAN]] :
        /\ config = [AudioFiles |-> AudioFiles(n), MaxParallel |-> 1,
                     NumTranscribers |-> 1]
        /\ numCPU = 0
        /\ pc = "collect"
        /\ numTranscribers = 1
        /\ maxParallel = 1
        /\ transcribers = <<1>>
        /\ transcriberPool = <<1>>
        /\ newCalls = 1
        /\ closeCalls = <<0>>
        /\ jobs = <<>>
        /\ jobsClosed = TRUE
        /\ results = [i \in 1..n |->
                        [Speaker |-> AudioFile(order[i]).Speaker,
                         Segments |-> ScriptedOutcome(order[i], o[order[i]]).Segments,
                         Error |-> ScriptedOutcome(order[i], o[order[i]]).Error]]
        /\ resultsClosed = TRUE
        /\ wg = 0
        /\ workers = <<[NewWorker EXCEPT !.pc = "done"]>>
        /\ idx = n
        /\ closeIdx = 0
        /\ transcript = <<>>
        /\ processingErrors = <<>>
        /\ ret = NotReturned
        /\ transcribed = [j \in 1..n |-> <<ScriptedOutcome(j, o[j])>>]
        /\ verbose = FALSE
        /\ warned = <<>>
        /\ duration = <<>>
        /\ audio = NoAudio
        /\ cli = NoCli

\* The caller calls SortByTime on the transcript ProcessFiles returned.
SortByTimeAgain ==
  /\ pc = "done"
  /\ ret.err = "nil"
  /\ transcript' \in SortByTimeOutcomes(transcript)
  /\ ret' = [ret EXCEPT !.transcript = <<[Segments |-> transcript']>>]
  /\ pc' = "sortedAgain"
  /\ UNCHANGED <<config, numCPU, numTranscribers, maxParallel, transcribers,
                 transcriberPool, newCalls, closeCalls, jobs, jobsClosed,
                 results, resultsClosed, wg, workers, idx, closeIdx,
                 processingErrors, transcribed, verbose, warned,
                 duration, audio, cli>>

\* main prints transcript.Duration() of the transcript it was returned.
PrintDuration ==
  /\ pc \in {"done", "sortedAgain"}
  /\ ret.err = "nil"
  /\ duration = <<>>
  /\ duration' = <<Duration(ret.transcript[1].Segments)>>
  /\ UNCHANGED <<config, numCPU, pc, numTranscribers, maxParallel, transcribers,
                 transcriberPool, newCalls, closeCalls, jobs, jobsClosed,
                 results, resultsClosed, wg, workers, idx, closeIdx,
                 transcript, processingErrors, ret, transcribed, verbose,
                 warned, audio, cli>>

AssembleNext ==
  \/ Collect
  \/ Finish
  \/ DeferredClose
  \/ Returned
  \/ SortByTimeAgain
  \/ PrintDuration

AssembleSpec == AssembleInit /\ [][AssembleNext]_vars

Position(seq, x) == CHOOSE i \in 1..Len(seq) : seq[i] = x

\* `after` holds the elements of `before` in non-decreasing StartTime, those
\* of equal StartTime in the order they have in `before`.
StableSortOf(before, after) ==
  /\ IsPermutation(after, before)
  /\ NonDecreasingStart(after)
  /\ \A i \in 1..Len(after) : \A k \in 1..Len(after) :
       (i < k /\ after[i].StartTime = after[k].StartTime)
         => Position(before, after[i]) < Position(before, after[k])

NoEqualStarts(segs) ==
  \A i \in 1..Len(segs) : \A k \in 1..Len(segs) :
    i # k => segs[i].StartTime # segs[k].StartTime

\* The transcript a run returns in which the results arrive in file order.
InFileOrder(segs) == StableSortOf(SuccessfulSegments(Len(config.AudioFiles)), segs)

C18_AssemblyIdempotent ==
  [][/\ (pc = "collect" /\ pc' = "deferred" /\ ret'.err = "nil")
          => /\ StableSortOf(transcript, transcript')
             /\ ret'.transcript = <<[Segments |-> transcript']>>
     /\ (pc = "done" /\ pc' = "sortedAgain")
          => /\ transcript' = transcript
             /\ ret'.transcript = ret.transcript]_vars

C18_Witness ==
  /\ pc = "sortedAgain"
  /\ Len(transcript) = 3
  /\ ~NoEqualStarts(transcript)

\* --------------------------------------------- collection and channels
\* A receive from the results channel, and a send to it.
ResultReceived == Len(results') < Len(results)

ResultSent == Len(results') > Len(results)

\* C21: every receive from the results channel happens after wg.Wait has
\* returned and the channel is closed, with every worker terminated, and
\* no result is sent once the channel is closed.
C21_CollectAfterWorkers ==
  [][/\ ResultReceived => (resultsClosed /\ wg = 0 /\ AllWorkersDone)
     /\ ResultSent => ~resultsClosed]_vars

C21_Witness ==
  /\ pc = "collect"
  /\ Len(workers) = 2
  /\ Len(config.AudioFiles) = 2
  /\ Len(results) = 1
  /\ Len(transcript) + Len(processingErrors) > 0

\* The senders that are at a channel send.
AtPoolSend == pc = "createPool" /\ CreateLoopGuard

AtJobSend == pc = "send" /\ idx < Len(config.AudioFiles)

AtResultSend == { w \in WorkerIds : workers[w].pc = "result" }

AtHandleReturn == { w \in WorkerIds : workers[w].pc = "return" }

\* C28: the jobs and the results channel never hold more than
\* len(AudioFiles) elements and the pool never more than K handles, and
\* whenever the producer, a worker with a result or a worker with a handle
\* to give back (or the creation loop) is at its send, the channel has room:
\* no send waits for a receiver.
C28_NoSendBlocks ==
  /\ Len(jobs) <= Len(config.AudioFiles)
  /\ Len(results) <= Len(config.AudioFiles)
  /\ Len(transcriberPool) <= PoolSizeK
  /\ AtPoolSend => Len(transcriberPool) < PoolCapacity
  /\ AtJobSend => Len(jobs) < JobsCapacity
  /\ AtResultSend # {} => Len(results) < ResultsCapacity
  /\ AtHandleReturn # {} => Len(transcriberPool) < PoolCapacity

C28_Witness ==
  /\ Len(config.AudioFiles) = 2
  /\ PoolSizeK = 2
  /\ AtResultSend # {}
  /\ AtHandleReturn # {}
  /\ Len(transcriberPool) = PoolSizeK - 1

\* C29: no ProcessResult carries both an error and segments: whatever
\* TranscribeFile returned with an error has no segments, in the worker's
\* locals, in the results channel and in the history of the calls, and the
\* transcript holds no segment of a failed job.
C29_ErrorXorSegments ==
  /\ \A w \in WorkerIds : workers[w].err # "nil" => workers[w].segments = <<>>
  /\ \A i \in 1..Len(results) : results[i].Error # "nil" => results[i].Segments = <<>>
  /\ \A j \in JobIds : \A i \in 1..Len(transcribed[j]) :
       transcribed[j][i].Error # "nil" => transcribed[j][i].Segments = <<>>
  /\ \A j \in JobIds :
       (Len(transcribed[j]) > 0 /\ transcribed[j][1].Error # "nil")
         => \A i \in 1..Len(transcript) : transcript[i].Speaker # SpeakerOf(j)

C29_Witness ==
  /\ pc = "done"
  /\ Len(config.AudioFiles) = 2
  /\ ret.err = "nil"
  /\ Len(processingErrors) = 1
  /\ transcribed[1][1].Error # "nil"
  /\ Len(transcript) = 1

\* ------------------------------------------------------------ duration
\* d is the greatest EndTime among segs, 0 for no segments.
IsMaxEndTime(segs, d) ==
  IF Len(segs) = 0
    THEN d = 0
    ELSE /\ \E i \in 1..Len(segs) : segs[i].EndTime = d
         /\ \A i \in 1..Len(segs) : segs[i].EndTime <= d

SingleInit ==
  /\ config \in [AudioFiles : {AudioFiles(n) : n \in 0..MaxAudioFiles},
                 MaxParallel : -1..MaxMaxParallel,
                 NumTranscribers : {0}]
  /\ numCPU = 0
  /\ pc = "entry"
  /\ numTranscribers = 0
  /\ maxParallel = 0
  /\ transcribers = <<>>
  /\ transcriberPool = <<>>
  /\ newCalls = 0
  /\ closeCalls = <<>>
  /\ jobs = <<>>
  /\ jobsClosed = FALSE
  /\ results = <<>>
  /\ resultsClosed = FALSE
  /\ wg = 0
  /\ workers = <<>>
  /\ idx = 0
  /\ closeIdx = 0
  /\ transcript = <<>>
  /\ processingErrors = <<>>
  /\ ret = NotReturned
  /\ transcribed = [j \in 1..Len(config.AudioFiles) |-> <<>>]
  /\ verbose = FALSE
  /\ warned = <<>>
  /\ duration = <<>>
  /\ audio = NoAudio
  /\ cli = NoCli

\* maxParallel is resolved, NewWhisperTranscriber succeeds, its Close is
\* deferred and the channels are made.
SingleCreate ==
  /\ pc = "entry"
  /\ Len(config.AudioFiles) > 0
  /\ \E ncpu \in 1..MaxNumCPU :
       /\ numCPU' = IF config.MaxParallel <= 0 THEN ncpu ELSE 0
       /\ maxParallel' = DefaultMaxParallel(config.MaxParallel, ncpu)
  /\ newCalls' = newCalls + 1
  /\ transcribers' = <<1>>
  /\ closeCalls' = <<0>>
  /\ jobs' = <<>>
  /\ results' = <<>>
  /\ idx' = 0
  /\ pc' = "spawn"
  /\ UNCHANGED <<config, numTranscribers, transcriberPool, jobsClosed,
                 resultsClosed, wg, workers, closeIdx, transcript,
                 processingErrors, ret, transcribed, verbose, warned,
                 duration, audio, cli>>

\* NewWhisperTranscriber returns an error.
SingleCreateFails ==
  /\ pc = "entry"
  /\ Len(config.AudioFiles) > 0
  /\ \E ncpu \in 1..MaxNumCPU :
       /\ numCPU' = IF config.MaxParallel <= 0 THEN ncpu ELSE 0
       /\ maxParallel' = DefaultMaxParallel(config.MaxParallel, ncpu)
  /\ newCalls' = newCalls + 1
  /\ ret' = Return(<<>>, "failed to create transcriber", <<>>)
  /\ pc' = "done"
  /\ UNCHANGED <<config, numTranscribers, transcribers, transcriberPool,
                 closeCalls, jobs, jobsClosed, results, resultsClosed, wg,
                 workers, idx, closeIdx, transcript, processingErrors,
                 transcribed, verbose, warned, duration, audio, cli>>

\* worker: `for audioFile := range jobs` receives a job and calls
\* transcriber.TranscribeFile on the transcriber it was started with.
SingleWorkerDequeue(w) ==
  /\ workers[w].pc = "range"
  /\ jobs # <<>>
  /\ jobs' = JobsAfterDequeue
  /\ SetWorker(w, [workers[w] EXCEPT !.pc = "transcribe",
                                     !.audioFile = Head(jobs),
                                     !.transcriber = transcribers[1]])
  /\ UNCHANGED <<config, numCPU, pc, numTranscribers, maxParallel,
                 transcribers, transcriberPool, newCalls, closeCalls,
                 jobsClosed, results, resultsClosed, wg, idx, closeIdx,
                 transcript, processingErrors, ret, transcribed, verbose,
                 warned, duration, audio, cli>>

\* worker: TranscribeFile returns its (segments, err).
SingleWorkerTranscribe(w) ==
  /\ workers[w].pc = "transcribe"
  /\ \E o \in TranscribeFileOutcomes(workers[w].audioFile.Path,
                                     workers[w].audioFile.Speaker) :
       /\ SetWorker(w, [workers[w] EXCEPT !.pc = "result",
                                          !.transcriber = NoHandle,
                                          !.segments = o.Segments,
                                          !.err = o.Error])
       /\ transcribed' = [transcribed EXCEPT ![workers[w].audioFile.Path] =
                                                Append(@, o)]
  /\ UNCHANGED <<config, numCPU, pc, numTranscribers, maxParallel,
                 transcribers, transcriberPool, newCalls, closeCalls, jobs,
                 jobsClosed, results, resultsClosed, wg, idx, closeIdx,
                 transcript, processingErrors, ret, verbose, warned,
                 duration, audio, cli>>

SingleNext ==
  \/ NoAudioFiles
  \/ SingleCreate
  \/ SingleCreateFails
  \/ Spawn
  \/ SpawnDone
  \/ SendJob
  \/ CloseJobs
  \/ Wait
  \/ Collect
  \/ Finish
  \/ DeferredClose
  \/ Returned
  \/ \E w \in 1..Len(workers) : SingleWorkerDequeue(w)
  \/ \E w \in 1..Len(workers) : SingleWorkerTranscribe(w)
  \/ \E w \in 1..Len(workers) : WorkerSendResult(w)
  \/ \E w \in 1..Len(workers) : WorkerExit(w)

SingleSpec == SingleInit /\ [][SingleNext]_vars

\* The workers inside TranscribeFile of handle h.
InsideOf(h) == { w \in WorkerIds : workers[w].pc = "transcribe"
                                     /\ workers[w].transcriber = h }

\* C27: in the single-transcriber variant the one handle is never inside
\* TranscribeFile for two jobs at the same time.
C27_SingleHandleExclusive ==
  \A h \in Handles : Cardinality(InsideOf(h)) <= 1

\* ------------------------------------------------- large naturals
\* float64 and float32 arithmetic needs integers beyond the range of the
\* checker's: a natural number is the sequence of its digits in base
\* LimbBase, least significant first, without leading zero digits.
LimbBase == 2^15

LimbBits == 15

RECURSIVE BigNorm(_)
BigNorm(a) ==
  IF a = <<>> THEN <<>>
  ELSE IF a[Len(a)] = 0 THEN BigNorm(SubSeq(a, 1, Len(a) - 1)) ELSE a

RECURSIVE BigFromInt(_)
BigFromInt(n) ==
  IF n = 0 THEN <<>> ELSE <<n % LimbBase>> \o BigFromInt(n \div LimbBase)

RECURSIVE BigToInt(_)
BigToInt(a) ==
  IF a = <<>> THEN 0 ELSE a[1] + LimbBase * BigToInt(Tail(a))

Limb(a, i) == IF i <= Len(a) THEN a[i] ELSE 0

RECURSIVE BigAddFrom(_, _, _, _)
BigAddFrom(a, b, i, carry) ==
  IF i > Len(a) /\ i > Len(b)
    THEN IF carry = 0 THEN <<>> ELSE <<carry>>
    ELSE <<(Limb(a, i) + Limb(b, i) + carry) % LimbBase>>
           \o BigAddFrom(a, b, i + 1, (Limb(a, i) + Limb(b, i) + carry) \div LimbBase)

BigAdd(a, b) == BigAddFrom(a, b, 1, 0)

\* a - b, for a >= b.
RECURSIVE BigSubFrom(_, _, _, _)
BigSubFrom(a, b, i, borrow) ==
  IF i > Len(a) THEN <<>>
  ELSE IF Limb(a, i) - Limb(b, i) - borrow < 0
         THEN <<Limb(a, i) - Limb(b, i) - borrow + LimbBase>>
                \o BigSubFrom(a, b, i + 1, 1)
         ELSE <<Limb(a, i) - Limb(b, i) - borrow>> \o BigSubFrom(a, b, i + 1, 0)

BigSub(a, b) == BigNorm(BigSubFrom(a, b, 1, 0))

RECURSIVE BigCmpFrom(_, _, _)
BigCmpFrom(a, b, i) ==
  IF i = 0 THEN 0
  ELSE IF a[i] > b[i] THEN 1
  ELSE IF a[i] < b[i] THEN -1
  ELSE BigCmpFrom(a, b, i - 1)

\* -1, 0 or 1 as a is less than, equal to or greater than b.
BigCmp(a, b) ==
  IF Len(a) > Len(b) THEN 1
  ELSE IF Len(a) < Len(b) THEN -1
  ELSE BigCmpFrom(a, b, Len(a))

RECURSIVE BigMulLimbFrom(_, _, _, _)
BigMulLimbFrom(a, k, i, carry) ==
  IF i > Len(a)
    THEN IF carry = 0 THEN <<>> ELSE <<carry>>
    ELSE <<(a[i] * k + carry) % LimbBase>>
           \o BigMulLimbFrom(a, k, i + 1, (a[i] * k + carry) \div LimbBase)

\* a * k for a digit k.
BigMulLimb(a, k) == BigNorm(BigMulLimbFrom(a, k, 1, 0))

BigShlLimbs(a, n) == IF a = <<>> THEN <<>> ELSE [i \in 1..n |-> 0] \o a

RECURSIVE BigMulFrom(_, _, _)
BigMulFrom(a, b, i) ==
  IF i > Len(b) THEN <<>>
  ELSE BigAdd(BigShlLimbs(BigMulLimb(a, b[i]), i - 1), BigMulFrom(a, b, i + 1))

BigMul(a, b) == BigMulFrom(a, b, 1)

\* a * 2^k
BigShl(a, k) == BigShlLimbs(BigMulLimb(a, 2^(k % LimbBits)), k \div LimbBits)

\* The quotient of a by a digit d, from digit i down, rem carried in.
RECURSIVE BigDivLimbFrom(_, _, _, _)
BigDivLimbFrom(a, d, i, rem) ==
  IF i = 0 THEN <<>>
  ELSE BigDivLimbFrom(a, d, i - 1, (rem * LimbBase + a[i]) % d)
         \o <<(rem * LimbBase + a[i]) \div d>>

\* floor(a / 2^k)
BigShr(a, k) ==
  IF k \div LimbBits >= Len(a) THEN <<>>
  ELSE BigNorm(BigDivLimbFrom(SubSeq(a, k \div LimbBits + 1, Len(a)),
                              2^(k % LimbBits),
                              Len(a) - k \div LimbBits, 0))

\* a mod 2^k
BigLowBits(a, k) ==
  BigNorm([i \in 1..(IF k \div LimbBits + 1 < Len(a)
                       THEN k \div LimbBits + 1 ELSE Len(a)) |->
             IF i = k \div LimbBits + 1 THEN a[i] % (2^(k % LimbBits)) ELSE a[i]])

RECURSIVE IntBitLen(_)
IntBitLen(n) == IF n = 0 THEN 0 ELSE 1 + IntBitLen(n \div 2)

BigBitLen(a) ==
  IF a = <<>> THEN 0 ELSE LimbBits * (Len(a) - 1) + IntBitLen(a[Len(a)])

\* Bit i of a, bit 0 the least significant.
BigBit(a, i) == (Limb(a, i \div LimbBits + 1) \div 2^(i % LimbBits)) % 2

BigIsOdd(a) == a # <<>> /\ a[1] % 2 = 1

\* The greatest digit d in lo..hi with b * d <= cur.
RECURSIVE QuotientDigit(_, _, _, _)
QuotientDigit(cur, b, lo, hi) ==
  IF lo = hi THEN lo
  ELSE IF BigCmp(BigMulLimb(b, (lo + hi + 1) \div 2), cur) <= 0
         THEN QuotientDigit(cur, b, (lo + hi + 1) \div 2, hi)
         ELSE QuotientDigit(cur, b, lo, (lo + hi + 1) \div 2 - 1)

\* One step of long division: the next digit of the dividend is brought
\* down to the remainder and the next digit of the quotient is found.
DivModStep(prev, digit, b) ==
  [q |-> BigNorm(<<QuotientDigit(BigNorm(<<digit>> \o prev.r), b, 0, LimbBase - 1)>>
                   \o prev.q),
   r |-> BigSub(BigNorm(<<digit>> \o prev.r),
                BigMulLimb(b, QuotientDigit(BigNorm(<<digit>> \o prev.r), b,
                                            0, LimbBase - 1)))]

\* Quotient and remainder by b of the digits of a from digit i up.
RECURSIVE BigDivModFrom(_, _, _)
BigDivModFrom(a, b, i) ==
  IF i > Len(a) THEN [q |-> <<>>, r |-> <<>>]
  ELSE DivModStep(BigDivModFrom(a, b, i + 1), a[i], b)

\* Quotient and remainder of a by b, b # 0.
BigDivMod(a, b) == BigDivModFrom(a, b, 1)

\* ------------------------------------------------- floating point
\* A float32 or float64 value is sign * m * 2^e with m a large natural: zero
\* has m = <<>>, every other value is kept with m odd, so that equal values
\* are equal records.  Infinities, NaN and subnormal numbers do not occur
\* in the computations modelled.  Every operation computes the exact result
\* and rounds it to the precision p of its type, to nearest, ties to even.
Float64 == 53

Float32 == 24

FloatZero == [sign |-> 1, m |-> <<>>, e |-> 0]

RECURSIVE IntTrailingZeros(_)
IntTrailingZeros(n) == IF n % 2 = 1 THEN 0 ELSE 1 + IntTrailingZeros(n \div 2)

RECURSIVE ZeroLimbs(_, _)
ZeroLimbs(a, i) == IF a[i] # 0 THEN i - 1 ELSE ZeroLimbs(a, i + 1)

\* The number of trailing zero bits of a, a # 0.
BigTrailingZeros(a) ==
  LimbBits * ZeroLimbs(a, 1) + IntTrailingZeros(a[ZeroLimbs(a, 1) + 1])

\* sign * m * 2^e in the kept form.
FloatOf(sign, m, e) ==
  IF m = <<>> THEN FloatZero
  ELSE [sign |-> sign, m |-> BigShr(m, BigTrailingZeros(m)),
        e |-> e + BigTrailingZeros(m)]

\* m with its t lowest bits rounded away; sticky: the exact value has
\* further non-zero bits below m.
RoundedShr(m, t, sticky) ==
  IF \/ BigCmp(BigLowBits(m, t), BigShl(<<1>>, t - 1)) > 0
     \/ /\ BigCmp(BigLowBits(m, t), BigShl(<<1>>, t - 1)) = 0
        /\ (sticky \/ BigIsOdd(BigShr(m, t)))
    THEN BigAdd(BigShr(m, t), <<1>>)
    ELSE BigShr(m, t)

\* sign * m * 2^e (and a little more when sticky) rounded to p bits.
FloatRound(sign, m, e, sticky, p) ==
  IF BigBitLen(m) <= p
    THEN FloatOf(sign, m, e)
    ELSE FloatOf(sign, RoundedShr(m, BigBitLen(m) - p, sticky),
                 e + BigBitLen(m) - p)

Abs(n) == IF n < 0 THEN -n ELSE n

\* The conversion float64(n) or float32(n) of an int.
FloatFromInt(n, p) ==
  FloatRound(IF n < 0 THEN -1 ELSE 1, BigFromInt(Abs(n)), 0, FALSE, p)

FloatNeg(a) == [a EXCEPT !.sign = IF a.m = <<>> THEN 1 ELSE -a.sign]

FloatMul(a, b, p) ==
  FloatRound(a.sign * b.sign, BigMul(a.m, b.m), a.e + b.e, FALSE, p)

\* The bits the dividend is shifted up by, for a quotient of p + 2 bits or
\* more.
DivShift(a, b, p) ==
  IF p + 2 + BigBitLen(b.m) - BigBitLen(a.m) > 0
    THEN p + 2 + BigBitLen(b.m) - BigBitLen(a.m)
    ELSE 0

FloatDivOf(a, b, p, dm) ==
  FloatRound(a.sign * b.sign, dm.q, a.e - b.e - DivShift(a, b, p),
             dm.r # <<>>, p)

\* a / b, b # 0.
FloatDiv(a, b, p) ==
  IF a.m = <<>> THEN FloatZero
  ELSE FloatDivOf(a, b, p, BigDivMod(BigShl(a.m, DivShift(a, b, p)), b.m))

\* am * 2^e + bm * 2^e with the signs given.
FloatAddAligned(asign, am, bsign, bm, e, p) ==
  IF asign = bsign THEN FloatRound(asign, BigAdd(am, bm), e, FALSE, p)
  ELSE IF BigCmp(am, bm) >= 0 THEN FloatRound(asign, BigSub(am, bm), e, FALSE, p)
  ELSE FloatRound(bsign, BigSub(bm, am), e, FALSE, p)

FloatAdd(a, b, p) ==
  IF a.m = <<>> THEN FloatRound(b.sign, b.m, b.e, FALSE, p)
  ELSE IF b.m = <<>> THEN FloatRound(a.sign, a.m, a.e, FALSE, p)
  ELSE IF a.e <= b.e
         THEN FloatAddAligned(a.sign, a.m, b.sign, BigShl(b.m, b.e - a.e), a.e, p)
         ELSE FloatAddAligned(a.sign, BigShl(a.m, a.e - b.e), b.sign, b.m, b.e, p)

FloatSub(a, b, p) == FloatAdd(a, FloatNeg(b), p)

\* A precision that rounds nothing away: the exact result.
Exact == 8 * Float64

\* a < b
FloatLess(a, b) == FloatSub(a, b, Exact).sign = -1

\* The conversion int(a): truncation toward zero.
FloatTrunc(a) ==
  IF a.e >= 0
    THEN a.sign * BigToInt(BigShl(a.m, a.e))
    ELSE a.sign * BigToInt(BigShr(a.m, -a.e))

\* 2^k
FloatPow2(k) == [sign |-> 1, m |-> <<1>>, e |-> k]

\* ------------------------------------------------------- loadAudioFile
FlooredQuot(a, b) == a \div b

\* Go's integer division a / b for b > 0: the quotient truncated toward
\* zero.
Quot(a, b) == IF a >= 0 THEN a \div b ELSE -((-a) \div b)

\* The inner loop of the mono reduction: the sum of the channels ch.. of
\* frame i (frames counted from 0).
RECURSIVE FrameSum(_, _, _, _)
FrameSum(data, numChannels, i, ch) ==
  IF ch >= numChannels THEN 0
  ELSE data[i * numChannels + ch + 1] + FrameSum(data, numChannels, i, ch + 1)

\* Convert to mono: one channel is passed through, more are averaged frame
\* by frame.
Mono(data, numChannels) ==
  IF numChannels = 1 THEN data
  ELSE [k \in 1..Quot(Len(data), numChannels) |->
          Quot(FrameSum(data, numChannels, k - 1, 0), numChannels)]

\* sample1 + (sample2-sample1)*frac in float64.  The compiler may fuse the
\* multiplication and the addition into one operation, rounded once; fused
\* says whether this build does.
Interpolate(sample1, sample2, frac, fused) ==
  IF fused
    THEN FloatAdd(sample1, FloatMul(FloatSub(sample2, sample1, Float64), frac, Exact),
                  Float64)
    ELSE FloatAdd(sample1, FloatMul(FloatSub(sample2, sample1, Float64), frac, Float64),
                  Float64)

PastTrailingEdge(samples, srcIdx) == srcIdx >= Len(samples)

\* if srcIdx >= len(samples)-1
AtTrailingEdge(samples, srcIdx) == srcIdx >= Len(samples) - 1

\* samples[k], k counted from 0 as in the source.  A read outside the slice
\* is recorded by IndicesRead; the value given here for it is never used
\* by a run that stays inside.
SampleAt(samples, k) ==
  IF k >= 0 /\ k < Len(samples) THEN samples[k + 1] ELSE 0

\* The indices of samples the loop body reads for the source index srcIdx.
IndicesReadAt(samples, srcIdx) ==
  IF AtTrailingEdge(samples, srcIdx)
    THEN {Len(samples) - 1}
    ELSE {srcIdx, srcIdx + 1}

\* The body of the loop of resample for output index i (from 0), srcPos
\* being float64(i) * ratio.
ResampledAt(samples, srcPos, fused) ==
  IF AtTrailingEdge(samples, FloatTrunc(srcPos))
    THEN SampleAt(samples, Len(samples) - 1)
    ELSE FloatTrunc(Interpolate(
           FloatFromInt(SampleAt(samples, FloatTrunc(srcPos)), Float64),
           FloatFromInt(SampleAt(samples, FloatTrunc(srcPos) + 1), Float64),
           FloatSub(srcPos, FloatFromInt(FloatTrunc(srcPos), Float64), Float64),
           fused))

\* ratio := float64(fromRate) / float64(toRate)
Ratio(fromRate, toRate) ==
  FloatDiv(FloatFromInt(fromRate, Float64), FloatFromInt(toRate, Float64), Float64)

\* outputLen := int(float64(len(samples)) / ratio)
OutputLen(n, fromRate, toRate) ==
  FloatTrunc(FloatDiv(FloatFromInt(n, Float64), Ratio(fromRate, toRate), Float64))

ResampledWith(samples, ratio, outputLen, fused) ==
  [k \in 1..outputLen |->
     ResampledAt(samples, FloatMul(FloatFromInt(k - 1, Float64), ratio, Float64), fused)]

resample(samples, fromRate, toRate, fused) ==
  IF fromRate = toRate THEN samples
  ELSE ResampledWith(samples, Ratio(fromRate, toRate),
                     OutputLen(Len(samples), fromRate, toRate), fused)

\* srcIdx of output index i (from 0).
SrcIdx(i, fromRate, toRate) ==
  FloatTrunc(FloatMul(FloatFromInt(i, Float64), Ratio(fromRate, toRate), Float64))

\* Every index of samples a call of resample reads.
IndicesRead(samples, fromRate, toRate) ==
  IF fromRate = toRate THEN {}
  ELSE UNION { IndicesReadAt(samples, SrcIdx(k - 1, fromRate, toRate)) :
                 k \in 1..OutputLen(Len(samples), fromRate, toRate) }

\* The normalization factor for the bit depth of the file.
MaxVal(bitDepth) ==
  CASE bitDepth = 16 -> FloatPow2(15)
    [] bitDepth = 24 -> FloatPow2(23)
    [] bitDepth = 32 -> FloatPow2(31)
    [] OTHER         -> FloatPow2(bitDepth - 1)

FloatOne == FloatPow2(0)

NoClamp(x) == x

\* The clamp to [-1.0, 1.0].
Clamp(x) ==
  IF FloatLess(FloatOne, x) THEN FloatOne
  ELSE IF FloatLess(x, FloatNeg(FloatOne)) THEN FloatNeg(FloatOne)
  ELSE x

\* floatSamples[i] = float32(sample) / maxVal, clamped.
Normalized(sample, bitDepth) ==
  Clamp(FloatDiv(FloatFromInt(sample, Float32), MaxVal(bitDepth), Float32))

\* ------------------------------------------------------------- formats
\* A string is the sequence of its characters.
FormatTXT == <<"t", "x", "t">>

FormatSRT == <<"s", "r", "t">>

FormatVTT == <<"v", "t", "t">>

FormatJSON == <<"j", "s", "o", "n">>

ValidFormats == <<FormatTXT, FormatSRT, FormatVTT, FormatJSON>>

\* strings.ToLower on the letters the format names are made of.
ToLowerChar(c) ==
  CASE c = "T" -> "t"
    [] c = "X" -> "x"
    [] c = "S" -> "s"
    [] c = "R" -> "r"
    [] c = "V" -> "v"
    [] c = "J" -> "j"
    [] c = "O" -> "o"
    [] c = "N" -> "n"
    [] c = "D" -> "d"
    [] c = "C" -> "c"
    [] OTHER   -> c

ToLower(str) == [i \in 1..Len(str) |-> ToLowerChar(str[i])]

IsValidFormat(format) ==
  \E i \in 1..Len(ValidFormats) : ValidFormats[i] = ToLower(format)

\* What a formatter returns: the rendering of the segments, which is not
\* modelled further than its kind, or the error for an empty transcript.
Rendered(kind, segs) ==
  IF Len(segs) = 0
    THEN [output |-> <<>>, err |-> "transcript is empty"]
    ELSE [output |-> <<kind, segs>>, err |-> "nil"]

formatText(segs) == Rendered("txt", segs)

formatSRT(segs) == Rendered("srt", segs)

formatVTT(segs) == Rendered("vtt", segs)

formatJSON(segs) == Rendered("json", segs)

FormatTranscript(segs, format) ==
  CASE format = FormatTXT  -> formatText(segs)
    [] format = FormatSRT  -> formatSRT(segs)
    [] format = FormatVTT  -> formatVTT(segs)
    [] format = FormatJSON -> formatJSON(segs)
    [] OTHER -> [output |-> <<>>, err |-> "unsupported format"]

\* The letters of the --format values tried, in both cases.
Letters == {"t", "x", "s", "r", "v", "j", "o", "n",
            "T", "X", "S", "R", "V", "J", "O", "N"}

\* Every spelling, in upper, lower and mixed case, of a format name.
Spellings(name) == { str \in [1..Len(name) -> Letters] : ToLower(str) = name }

\* The values of the --format flag: every spelling of the four names, no
\* value at all, and names of no format.
FormatFlags ==
  UNION { Spellings(ValidFormats[i]) : i \in 1..Len(ValidFormats) }
    \cup { <<>>, <<"d", "o", "c">>, <<"D", "O", "C">>, <<"t", "x">>,
           <<"t", "x", "t", "t">> }

\* What ProcessFiles returns to main: a transcript with segments, or an
\* error.
ProcessFilesResults ==
  { Return(<<[Segments |-> InsertionSort(StampSegments(EngineSegments(1), 1))]>>,
           "nil", <<>>),
    Return(<<[Segments |-> InsertionSort(StampSegments(EngineSegments(1), 1)
                                           \o StampSegments(EngineSegments(2), 2))]>>,
           "nil", <<>>),
    Return(<<>>, "no segments produced from transcription", <<>>) }

FormatInit ==
  /\ cli \in [pc : {"flags"}, format : FormatFlags, output : {<<>>}, err : {"nil"}]
  /\ config = [AudioFiles |-> AudioFiles(2), MaxParallel |-> 1,
               NumTranscribers |-> 1]
  /\ numCPU = 0
  /\ pc = "entry"
  /\ numTranscribers = 0
  /\ maxParallel = 0
  /\ transcribers = <<>>
  /\ transcriberPool = <<>>
  /\ newCalls = 0
  /\ closeCalls = <<>>
  /\ jobs = <<>>
  /\ jobsClosed = FALSE
  /\ results = <<>>
  /\ resultsClosed = FALSE
  /\ wg = 0
  /\ workers = <<>>
  /\ idx = 0
  /\ closeIdx = 0
  /\ transcript = <<>>
  /\ processingErrors = <<>>
  /\ ret = NotReturned
  /\ transcribed = [j \in 1..Len(config.AudioFiles) |-> <<>>]
  /\ verbose = FALSE
  /\ warned = <<>>
  /\ duration = <<>>
  /\ audio = NoAudio

processFilesVars ==
  <<config, numCPU, pc, numTranscribers, maxParallel, transcribers,
    transcriberPool, newCalls, closeCalls, jobs, jobsClosed, results,
    resultsClosed, wg, workers, idx, closeIdx, transcript, processingErrors,
    ret, transcribed, verbose, warned>>

\* main: format == "": the flag is required.
FormatRequired ==
  /\ cli.pc = "flags"
  /\ cli.format = <<>>
  /\ cli' = [cli EXCEPT !.pc = "exit", !.err = "format flag is required"]
  /\ UNCHANGED <<processFilesVars, duration, audio>>

\* main: if !formats.IsValidFormat(format) { ... os.Exit(1) }
ValidateFormat ==
  /\ cli.pc = "flags"
  /\ cli.format # <<>>
  /\ cli' = IF IsValidFormat(cli.format)
              THEN [cli EXCEPT !.pc = "validated"]
              ELSE [cli EXCEPT !.pc = "exit", !.err = "invalid format"]
  /\ UNCHANGED <<processFilesVars, duration, audio>>

\* main: transcript, err := transcriber.ProcessFiles(config)
CallProcessFiles ==
  /\ cli.pc = "validated"
  /\ ret' \in ProcessFilesResults
  /\ transcript' = IF ret'.err = "nil" THEN ret'.transcript[1].Segments ELSE <<>>
  /\ pc' = "done"
  /\ cli' = IF ret'.err = "nil"
              THEN [cli EXCEPT !.pc = "processed"]
              ELSE [cli EXCEPT !.pc = "exit", !.err = ret'.err]
  /\ UNCHANGED <<config, numCPU, numTranscribers, maxParallel, transcribers,
                 transcriberPool, newCalls, closeCalls, jobs, jobsClosed,
                 results, resultsClosed, wg, workers, idx, closeIdx,
                 processingErrors, transcribed, verbose, warned, duration,
                 audio>>

\* main: formats.FormatTranscript(transcript, formats.Format(format)), then
\* the output is written or the error ends the program.
FormatOutput ==
  /\ cli.pc = "processed"
  /\ cli' = [cli EXCEPT
               !.pc = IF FormatTranscript(transcript, cli.format).err = "nil"
                        THEN "written" ELSE "exit",
               !.output = FormatTranscript(transcript, cli.format).output,
               !.err = FormatTranscript(transcript, cli.format).err]
  /\ UNCHANGED <<processFilesVars, duration, audio>>

FormatNext ==
  \/ FormatRequired
  \/ ValidateFormat
  \/ CallProcessFiles
  \/ FormatOutput

FormatSpec == FormatInit /\ [][FormatNext]_vars

\* C30: a format that IsValidFormat accepted is one FormatTranscript
\* formats: once main is past its format check, FormatTranscript of the
\* non-empty transcript never ends in the unsupported-format error, in any
\* spelling.
C30_ValidatedFormatFormats ==
  (IsValidFormat(cli.format) /\ cli.pc \in {"written", "exit"}
     /\ Len(transcript) > 0)
    => (cli.pc = "written" /\ cli.err = "nil")

\* targetRate := whisper.SampleRate
WhisperSampleRate == 16000

\* The bit depths the WAV decoder hands out samples for.
BitDepths == {8, 16, 24, 32}

\* Sample data as the decoder delivers it for a bit depth: 8-bit samples
\* are unsigned, the others signed and within their width.
Patterns(bitDepth) ==
  CASE bitDepth = 8  -> { <<0, 255, 128, 127, 129, 1, 200, 3, 64>> }
    [] bitDepth = 16 -> { <<32767, -32768, -1, 1, -3, 0, -32767, 12345, -5>>,
                          <<10000, -10000, 100, -300, 500, -701, 900, -1100, 4>> }
    [] bitDepth = 24 -> { <<8388607, -8388608, -5, 2, 8388607, 7, -8388607, 0, -3>> }
    [] OTHER         -> { <<2147483647, -2147483647, 16777217, -16777219,
                            33554435, -3, 1, 0, -7>> }

\* The sample rates of the files tried.
SampleRates == {WhisperSampleRate, 32000, 8000, 24000, 44100, 4480}

MaxDataLen == 7

MaxChannels == 2

Buffers(bitDepth) ==
  { SubSeq(pat, 1, n) : pat \in Patterns(bitDepth), n \in 0..MaxDataLen }

AudioInit ==
  /\ \E bitDepth \in BitDepths :
       audio \in [pc : {"open"},
                  Data : Buffers(bitDepth),
                  NumChannels : 1..MaxChannels,
                  SampleRate : SampleRates,
                  BitDepth : {bitDepth},
                  fused : BOOLEAN,
                  monoSamples : {<<>>},
                  sourceSamples : {<<>>},
                  reads : {{}},
                  floatSamples : {<<>>},
                  err : {"nil"}]
  /\ cli = NoCli
  /\ config = [AudioFiles |-> AudioFiles(1), MaxParallel |-> 1,
               NumTranscribers |-> 1]
  /\ numCPU = 0
  /\ pc = "entry"
  /\ numTranscribers = 0
  /\ maxParallel = 0
  /\ transcribers = <<>>
  /\ transcriberPool = <<>>
  /\ newCalls = 0
  /\ closeCalls = <<>>
  /\ jobs = <<>>
  /\ jobsClosed = FALSE
  /\ results = <<>>
  /\ resultsClosed = FALSE
  /\ wg = 0
  /\ workers = <<>>
  /\ idx = 0
  /\ closeIdx = 0
  /\ transcript = <<>>
  /\ processingErrors = <<>>
  /\ ret = NotReturned
  /\ transcribed = [j \in 1..Len(config.AudioFiles) |-> <<>>]
  /\ verbose = FALSE
  /\ warned = <<>>
  /\ duration = <<>>

\* os.Open, IsValidFile or FullPCMBuffer fails: return nil, err.
ReadFails ==
  /\ audio.pc = "open"
  /\ \E e \in {"failed to open audio file", "invalid WAV file",
               "failed to read audio data"} :
       audio' = [audio EXCEPT !.pc = "returned", !.err = e]
  /\ UNCHANGED <<processFilesVars, duration, cli>>

\* The buffer is read, then: convert to mono if stereo.
ConvertToMono ==
  /\ audio.pc = "open"
  /\ audio' = [audio EXCEPT !.pc = "mono",
                            !.monoSamples = Mono(audio.Data, audio.NumChannels)]
  /\ UNCHANGED <<processFilesVars, duration, cli>>

\* Resample to whisper.SampleRate if needed.
ResampleIfNeeded ==
  /\ audio.pc = "mono"
  /\ audio' = [audio EXCEPT
       !.pc = "resampled",
       !.sourceSamples =
          IF audio.SampleRate # WhisperSampleRate
            THEN resample(audio.monoSamples, audio.SampleRate,
                          WhisperSampleRate, audio.fused)
            ELSE audio.monoSamples,
       !.reads =
          IF audio.SampleRate # WhisperSampleRate
            THEN IndicesRead(audio.monoSamples, audio.SampleRate, WhisperSampleRate)
            ELSE {}]
  /\ UNCHANGED <<processFilesVars, duration, cli>>

\* Convert to float32 normalized to [-1.0, 1.0]; return floatSamples, nil.
Normalize ==
  /\ audio.pc = "resampled"
  /\ audio' = [audio EXCEPT
       !.pc = "returned",
       !.floatSamples = [i \in 1..Len(audio.sourceSamples) |->
                           Normalized(audio.sourceSamples[i], audio.BitDepth)]]
  /\ UNCHANGED <<processFilesVars, duration, cli>>

AudioNext ==
  \/ ReadFails
  \/ ConvertToMono
  \/ ResampleIfNeeded
  \/ Normalize

AudioSpec == AudioInit /\ [][AudioNext]_vars

\* The states in which the mono reduction has been done.
MonoDone == audio.pc \in {"mono", "resampled"} \/ (audio.pc = "returned" /\ audio.err = "nil")

\* The states in which the resampling step has been done.
ResampleDone == audio.pc = "resampled" \/ (audio.pc = "returned" /\ audio.err = "nil")

\* The states in which loadAudioFile has returned samples.
SamplesReturned == audio.pc = "returned" /\ audio.err = "nil"

RECURSIVE SumOf(_)
SumOf(seq) == IF seq = <<>> THEN 0 ELSE Head(seq) + SumOf(Tail(seq))

\* q is the quotient of sum by n truncated toward zero.
IsTruncatedAverage(q, sum, n) ==
  /\ Abs(q) * n <= Abs(sum)
  /\ Abs(sum) - n < Abs(q) * n
  /\ q > 0 => sum > 0
  /\ q < 0 => sum < 0

\* The samples of frame k (from 1) of interleaved data.
Frame(data, numChannels, k) ==
  SubSeq(data, (k - 1) * numChannels + 1, k * numChannels)

\* C23: the mono reduction of multi-channel data has len(Data)/NumChannels
\* samples (integer division), each the sum of the channel samples of its
\* frame divided by the channel count and truncated toward zero, so that a
\* frame [10000, -10000] gives 0; single-channel data passes through.
C23_MonoIsTruncatedAverage ==
  MonoDone =>
    IF audio.NumChannels = 1
      THEN audio.monoSamples = audio.Data
      ELSE /\ Len(audio.monoSamples) = Len(audio.Data) \div audio.NumChannels
           /\ \A k \in 1..Len(audio.monoSamples) :
                /\ IsTruncatedAverage(audio.monoSamples[k],
                                      SumOf(Frame(audio.Data, audio.NumChannels, k)),
                                      audio.NumChannels)
                /\ Frame(audio.Data, audio.NumChannels, k) = <<10000, -10000>>
                     => audio.monoSamples[k] = 0

\* Stereo data with a frame of negative odd sum, the frame [10000, -10000]
\* and a trailing partial frame has been reduced.
C23_Witness ==
  /\ MonoDone
  /\ audio.NumChannels = 2
  /\ Len(audio.Data) = 7
  /\ Len(audio.monoSamples) = 3
  /\ audio.monoSamples[1] = 0
  /\ Frame(audio.Data, 2, 1) = <<10000, -10000>>
  /\ \E k \in 1..Len(audio.monoSamples) :
       /\ SumOf(Frame(audio.Data, 2, k)) < 0
       /\ SumOf(Frame(audio.Data, 2, k)) % 2 = 1

\* C24: resample is the identity when the rates are equal, and otherwise
\* its output has floor(inputLength / (fromRate / toRate)) samples, so
\* that 32000 to 16000 gives floor(L / 2).
C24_ResampledLength ==
  ResampleDone =>
    /\ resample(audio.monoSamples, audio.SampleRate, audio.SampleRate, audio.fused)
         = audio.monoSamples
    /\ audio.SampleRate # WhisperSampleRate =>
         Len(audio.sourceSamples)
           = (Len(audio.monoSamples) * WhisperSampleRate) \div audio.SampleRate
    /\ audio.SampleRate = 32000 =>
         Len(audio.sourceSamples) = Len(audio.monoSamples) \div 2

\* The values of the samples of a buffer.
Values(samples) == { samples[k] : k \in 1..Len(samples) }

\* The call of resample that loadAudioFile made, on a non-empty buffer.
Resampled ==
  /\ ResampleDone
  /\ audio.SampleRate # WhisperSampleRate
  /\ audio.monoSamples # <<>>

\* resample read no index outside its input buffer.
ReadsInsideBuffer == audio.reads \subseteq 0..(Len(audio.monoSamples) - 1)

\* C25, as stated: for every non-empty input and every pair of rates,
\* resample never reads outside the input buffer and the last output
\* sample always equals a real source sample.
C25_LastIsSourceSample ==
  Resampled =>
    /\ ReadsInsideBuffer
    /\ audio.sourceSamples # <<>> =>
         audio.sourceSamples[Len(audio.sourceSamples)] \in Values(audio.monoSamples)

\* C25, amended: for every non-empty input and every pair of rates,
\* resample never reads outside the input buffer, and every output sample
\* whose source index is at or after the last input index equals the last
\* source sample.
C25_ClampedAtTrailingEdge ==
  Resampled =>
    /\ ReadsInsideBuffer
    /\ \A k \in 1..Len(audio.sourceSamples) :
         SrcIdx(k - 1, audio.SampleRate, WhisperSampleRate) >= Len(audio.monoSamples) - 1
           => audio.sourceSamples[k] = audio.monoSamples[Len(audio.monoSamples)]

\* An upsampling run that both interpolated between two samples and took
\* the last sample at the trailing edge.
C25_Witness ==
  /\ Resampled
  /\ audio.SampleRate = 8000
  /\ Len(audio.monoSamples) = 3
  /\ Len(audio.sourceSamples) = 6
  /\ audio.reads = {0, 1, 2}
  /\ SrcIdx(5, audio.SampleRate, WhisperSampleRate) = 2
  /\ audio.sourceSamples[6] = audio.monoSamples[3]
  /\ audio.sourceSamples[2] \notin Values(audio.monoSamples)

\* The float32 value sign * n / 2^k.
Dyadic(n, k) ==
  IF n = 0 THEN FloatZero
  ELSE FloatOf(IF n < 0 THEN -1 ELSE 1, BigFromInt(Abs(n)), -k)

\* |x| <= 1.0
InUnitRange(x) == ~FloatLess(FloatOne, x) /\ ~FloatLess(x, FloatNeg(FloatOne))

\* 0.999 < x, compared exactly.
Above999(x) ==
  FloatLess(FloatFromInt(999, Exact), FloatMul(x, FloatFromInt(1000, Exact), Exact))

\* The largest magnitude a float32 holds every integer up to.
ExactInFloat32(n) == Abs(n) <= 16777216

\* C26: every sample loadAudioFile returns lies in [-1.0, 1.0]; it is the
\* integer sample divided by 2^(bitDepth-1), then clamped; a 16-bit 32767
\* gives a value in (0.999, 1.0] and a 16-bit -32768 gives exactly -1.0.
C26_NormalizedRange ==
  SamplesReturned =>
    /\ Len(audio.floatSamples) = Len(audio.sourceSamples)
    /\ \A i \in 1..Len(audio.floatSamples) :
         LET x == audio.floatSamples[i]
             n == audio.sourceSamples[i]
             k == audio.BitDepth - 1
         IN  /\ InUnitRange(x)
             /\ ExactInFloat32(n) =>
                  x = IF k < 24 /\ n > 2^k THEN FloatOne
                      ELSE IF k < 24 /\ n < -(2^k) THEN FloatNeg(FloatOne)
                      ELSE Dyadic(n, k)
             /\ (audio.BitDepth = 16 /\ n = 32767) => Above999(x)
             /\ (audio.BitDepth = 16 /\ n = -32768) => x = FloatNeg(FloatOne)

\* A 16-bit file at the target rate was normalized with both extreme
\* samples in it.
C26_Witness ==
  /\ SamplesReturned
  /\ audio.BitDepth = 16
  /\ Len(audio.floatSamples) >= 3
  /\ audio.sourceSamples[1] = 32767
  /\ audio.sourceSamples[2] = -32768
  /\ audio.floatSamples[1] # FloatOne
  /\ Above999(audio.floatSamples[1])
  /\ audio.floatSamples[2] = FloatNeg(FloatOne)

====
